---------------------------- MODULE Spec2Model ----------------------------
(***************************************************************************)
(* Model of the Paste Code Cleaner plugin (src/src/main.ts,                *)
(* src/src/settings.ts).                                                   *)
(*                                                                         *)
(* A string is a sequence of one-character strings, a text is a string     *)
(* that may hold the newline character, and a line sequence is a sequence  *)
(* of strings.  Line numbers and character offsets are 0-based, as in the  *)
(* source; At(s, i) reads the element the source calls s[i].               *)
(***************************************************************************)
EXTENDS Naturals, Integers, Sequences, FiniteSets, TLC

VARIABLES
    lines,      \* SpecNormalize: the argument of smartCleanBlankLines
    result,     \* SpecNormalize: the line sequence after passes applications
    passes,     \* SpecNormalize: how many times the function was applied
    orig,       \* SpecText: the text handed to the last transform
    text,       \* SpecText: the current text (the transform's result)
    fn,         \* SpecText: the transform applied last
    content,    \* SpecLocate / Spec: the editor's document, a line sequence
    cursor,     \* SpecLocate / Spec: editor.getCursor(), a position
    located,    \* SpecLocate: what getCodeBlockAtCursor returned
    selection,  \* Spec: the editor's selection (a span) or NoSelection
    settings,   \* Spec: plugin.settings
    notice,     \* Spec: the text of the last Notice shown
    evt         \* Spec: the last editor-paste event and what became of it

vars == <<lines, result, passes, orig, text, fn, content, cursor, located,
          selection, settings, notice, evt>>

-----------------------------------------------------------------------------
(* Bounds of the model.                                                    *)

MaxLines == 4
MaxPasses == 2
MaxTextLen == 6
MaxDocLines == 5
MaxEditorLines == 4

-----------------------------------------------------------------------------
(* JavaScript string primitives used by the source.                        *)

NL == "\n"

WhiteSpace == {" ", "\t", NL}

At(s, i) == s[i + 1]

RECURSIVE trimEnd(_)
trimEnd(s) ==
    IF s = <<>> THEN s
    ELSE IF s[Len(s)] \in WhiteSpace THEN trimEnd(SubSeq(s, 1, Len(s) - 1))
    ELSE s

RECURSIVE trimStart(_)
trimStart(s) ==
    IF s = <<>> THEN s
    ELSE IF s[1] \in WhiteSpace THEN trimStart(Tail(s))
    ELSE s

trim(s) == trimStart(trimEnd(s))

startsWith(s, p) == Len(s) >= Len(p) /\ SubSeq(s, 1, Len(p)) = p

endsWith(s, p) == Len(s) >= Len(p) /\ SubSeq(s, Len(s) - Len(p) + 1, Len(s)) = p

\* text.split('\n'): the empty text splits into one empty line.
RECURSIVE split(_)
split(t) ==
    IF \A k \in 1..Len(t) : t[k] # NL THEN <<t>>
    ELSE LET k == CHOOSE j \in 1..Len(t) :
                      t[j] = NL /\ \A m \in 1..(j - 1) : t[m] # NL
         IN  <<SubSeq(t, 1, k - 1)>> \o split(SubSeq(t, k + 1, Len(t)))

\* ls.join('\n'): the empty sequence joins to the empty text.
RECURSIVE join(_)
join(ls) ==
    IF ls = <<>> THEN <<>>
    ELSE IF Len(ls) = 1 THEN ls[1]
    ELSE ls[1] \o <<NL>> \o join(Tail(ls))

\* ls.slice(a, b) for 0 <= a <= b <= ls.length
slice(ls, a, b) == SubSeq(ls, a + 1, b)

\* ls.map(line => line.trimEnd())
mapTrimEnd(ls) == [k \in 1..Len(ls) |-> trimEnd(ls[k])]

-----------------------------------------------------------------------------
(* smartCleanBlankLines, main.ts 17-54.                                    *)
(* The loop state st holds result as the source builds it and, beside    *)
(* it, kept: the index i of every line pushed, which the source does not *)
(* store and no decision reads.                                            *)

\* Rule 1 with '[' forgotten.
Rule1NoSquare(prevLine) == endsWith(prevLine, <<"(">>) \/ endsWith(prevLine, <<"{">>)

\* Rule 1: the last pushed line ends with an opening bracket.
Rule1(prevLine) ==
    endsWith(prevLine, <<"(">>) \/ endsWith(prevLine, <<"[">>) \/ endsWith(prevLine, <<"{">>)

\* Rule 2: the next input line starts with a closing bracket.
Rule2(nextLine) ==
    startsWith(nextLine, <<")">>) \/ startsWith(nextLine, <<"]">>) \/ startsWith(nextLine, <<"}">>)

\* Rule 3: the last pushed line is blank (or nothing was pushed yet).
Rule3(lastResultLine) == lastResultLine = <<>>

\* result.push(line) pushing the trimmed line instead.
PushTrimmed(st, line, i) ==
    [result |-> Append(st.result, trim(line)), kept |-> Append(st.kept, i)]

\* result.push(line)
Push(st, line, i) ==
    [result |-> Append(st.result, line), kept |-> Append(st.kept, i)]

RECURSIVE smartCleanLoop(_, _, _)
smartCleanLoop(ls, i, st) ==
    IF ~(i < Len(ls)) THEN st
    ELSE LET line == At(ls, i)
             trimmedLine == trim(line)
             isBlank == trimmedLine = <<>>
             prevLine == IF Len(st.result) > 0
                         THEN trim(st.result[Len(st.result)]) ELSE <<>>
             nextLine == IF i + 1 < Len(ls) THEN trim(At(ls, i + 1)) ELSE <<>>
             lastResultLine == IF Len(st.result) > 0
                               THEN trim(st.result[Len(st.result)]) ELSE <<>>
         IN  IF ~isBlank THEN smartCleanLoop(ls, i + 1, Push(st, line, i))
             ELSE IF Rule1(prevLine) THEN smartCleanLoop(ls, i + 1, st)
             ELSE IF Rule2(nextLine) THEN smartCleanLoop(ls, i + 1, st)
             ELSE IF Rule3(lastResultLine) THEN smartCleanLoop(ls, i + 1, st)
             ELSE smartCleanLoop(ls, i + 1, Push(st, line, i))

smartCleanBlankLines(ls) ==
    smartCleanLoop(ls, 0, [result |-> <<>>, kept |-> <<>>]).result

\* The indices (0-based) of the input lines that smartCleanBlankLines pushed.
KeptIndices(ls) ==
    smartCleanLoop(ls, 0, [result |-> <<>>, kept |-> <<>>]).kept


-----------------------------------------------------------------------------
(* cleanTrailingWhitespace, main.ts 59-62.                                 *)

\* cleanTrailingWhitespace ending every line, the last too, with a newline.
cleanTrailingWhitespaceFinalNewline(t) ==
    join(smartCleanBlankLines(mapTrimEnd(split(t)))) \o <<NL>>

cleanTrailingWhitespace(t) ==
    LET ls == mapTrimEnd(split(t))
    IN  join(smartCleanBlankLines(ls))

-----------------------------------------------------------------------------
(* cleanCodeBlock, main.ts 117-135.                                        *)

\* cleanCodeBlock trimming the fence lines like the code lines.
cleanCodeBlockTrimFences(c) ==
    LET ls == split(c)
    IN  IF Len(ls) < 2 THEN c
        ELSE LET cleanedLines == mapTrimEnd(ls)
             IN  join(<<cleanedLines[1]>>
                      \o smartCleanBlankLines(slice(cleanedLines, 1, Len(ls) - 1))
                      \o <<cleanedLines[Len(ls)]>>)

cleanCodeBlock(c) ==
    LET ls == split(c)
    IN  IF Len(ls) < 2 THEN c
        ELSE LET openingFence == At(ls, 0)
                 closingFence == At(ls, Len(ls) - 1)
                 codeLines == slice(ls, 1, Len(ls) - 1)
                 cleanedLines == mapTrimEnd(codeLines)
                 processedLines == smartCleanBlankLines(cleanedLines)
             IN  join(<<openingFence>> \o processedLines \o <<closingFence>>)

-----------------------------------------------------------------------------
(* getCodeBlockAtCursor, main.ts 67-112.  A CodeBlockInfo | null is a      *)
(* sequence of at most one record.                                         *)

Null == <<>>

\* The backquote character, named: the lexer accepts none inside a string.
BQ == "BQ"

\* The fence marker: three backquotes.
Fence == <<BQ, BQ, BQ>>

\* The fence test without the trimStart().
IsFenceLineNoTrim(line) == startsWith(line, Fence)

\* line.trimStart().startsWith(Fence)
IsFenceLine(line) == startsWith(trimStart(line), Fence)

RECURSIVE locateLoop(_, _, _, _, _)
locateLoop(ls, i, inCodeBlock, codeBlockStart, cursorLine) ==
    IF ~(i < Len(ls)) THEN Null
    ELSE LET line == At(ls, i)
         IN  IF ~inCodeBlock /\ IsFenceLine(line)
             THEN locateLoop(ls, i + 1, TRUE, i, cursorLine)
             ELSE IF inCodeBlock /\ IsFenceLine(line)
             THEN LET codeBlockEnd == i
                  IN  IF cursorLine >= codeBlockStart /\ cursorLine <= codeBlockEnd
                      THEN LET fromCh == 0
                               endLine == At(ls, codeBlockEnd)
                               toCh == Len(endLine)
                               blockLines == slice(ls, codeBlockStart, codeBlockEnd + 1)
                               blockContent == join(blockLines)
                           IN  <<[from |-> [line |-> codeBlockStart, ch |-> fromCh],
                                  to |-> [line |-> codeBlockEnd, ch |-> toCh],
                                  content |-> blockContent]>>
                      ELSE locateLoop(ls, i + 1, FALSE, -1, cursorLine)
             ELSE locateLoop(ls, i + 1, inCodeBlock, codeBlockStart, cursorLine)

\* editor.getValue() of a document held as a line sequence
getValue(doc) == join(doc)

getCodeBlockAtCursor(doc, cursorLine) ==
    LET ls == split(getValue(doc))
    IN  locateLoop(ls, 0, FALSE, -1, cursorLine)

-----------------------------------------------------------------------------
(* Values the variables of a specification hold while it does not use them. *)

DEFAULT_SETTINGS == [autoCleanOnPaste |-> FALSE]

NormalizeIdle == lines = <<>> /\ result = <<>> /\ passes = 0

TextIdle == orig = <<>> /\ text = <<>>

EditorIdle ==
    content = <<<<>>>> /\ cursor = [line |-> 0, ch |-> 0] /\ selection = Null

PluginIdle == settings = DEFAULT_SETTINGS /\ notice = "" /\ evt = Null

-----------------------------------------------------------------------------
(* SpecNormalize: smartCleanBlankLines applied, and applied again, to      *)
(* every line sequence of at most MaxLines lines over NormLines.           *)

NormLines ==
    { <<>>, <<" ">>, <<"a">>,
      <<"(">>, <<"[">>, <<"{", " ">>, <<"(", "a">>,
      <<")">>, <<" ", "]">>, <<"}">>, <<"a", ")">> }

LineSeqs(n) == UNION { [1..k -> NormLines] : k \in 0..n }

InitNormalize ==
    /\ lines \in LineSeqs(MaxLines)
    /\ result = lines
    /\ passes = 0
    /\ TextIdle /\ fn = "none" /\ EditorIdle /\ located = Null /\ PluginIdle

NormalizePass ==
    /\ passes < MaxPasses
    /\ result' = smartCleanBlankLines(result)
    /\ passes' = passes + 1
    /\ UNCHANGED <<lines, orig, text, fn, content, cursor, located,
                   selection, settings, notice, evt>>

NextNormalize == NormalizePass

SpecNormalize == InitNormalize /\ [][NextNormalize]_vars

-----------------------------------------------------------------------------
(* SpecText: cleanTrailingWhitespace and cleanCodeBlock applied, again and *)
(* again, to every text of at most MaxTextLen characters over TextChars.   *)

TextChars == {" ", "a", "(", ")", NL}

Texts(n) == UNION { [1..k -> TextChars] : k \in 0..n }

InitText ==
    /\ text \in Texts(MaxTextLen)
    /\ orig = text
    /\ fn = "none"
    /\ NormalizeIdle /\ EditorIdle /\ located = Null /\ PluginIdle

CleanSelection ==
    /\ orig' = text
    /\ text' = cleanTrailingWhitespace(text)
    /\ fn' = "cleanSelection"
    /\ UNCHANGED <<lines, result, passes, content, cursor, located,
                   selection, settings, notice, evt>>

CleanBlock ==
    /\ orig' = text
    /\ text' = cleanCodeBlock(text)
    /\ fn' = "cleanBlock"
    /\ UNCHANGED <<lines, result, passes, content, cursor, located,
                   selection, settings, notice, evt>>

NextText == CleanSelection \/ CleanBlock

SpecText == InitText /\ [][NextText]_vars

-----------------------------------------------------------------------------
(* SpecLocate: getCodeBlockAtCursor on every document of at most           *)
(* MaxDocLines lines over FenceLines and every cursor line in it.          *)

FenceLines ==
    { Fence, <<" ">> \o Fence \o <<"a">>, <<"a">>, <<BQ, BQ>> }

Docs(lineSet, n) == UNION { [1..k -> lineSet] : k \in 1..n }

InitLocate ==
    /\ content \in Docs(FenceLines, MaxDocLines)
    /\ cursor \in { [line |-> c, ch |-> 0] : c \in 0..(Len(content) - 1) }
    /\ selection = Null
    /\ located = Null
    /\ fn = "none"
    /\ NormalizeIdle /\ TextIdle /\ PluginIdle

Locate ==
    /\ fn = "none"
    /\ located' = getCodeBlockAtCursor(content, cursor.line)
    /\ fn' = "locate"
    /\ UNCHANGED <<lines, result, passes, orig, text, content, cursor,
                   selection, settings, notice, evt>>

NextLocate == Locate

SpecLocate == InitLocate /\ [][NextLocate]_vars

-----------------------------------------------------------------------------
(* Vocabulary of the properties, stated apart from the operators above.    *)

Openers == {"(", "[", "{"}

Closers == {")", "]", "}"}

IsBlank(line) == \A k \in 1..Len(line) : line[k] \in WhiteSpace

\* The last character of the line that is not whitespace is an opener.
EndsWithOpener(line) ==
    \E k \in 1..Len(line) :
        /\ line[k] \in Openers
        /\ \A m \in (k + 1)..Len(line) : line[m] \in WhiteSpace

\* The first character of the line that is not whitespace is a closer.
StartsWithCloser(line) ==
    \E k \in 1..Len(line) :
        /\ line[k] \in Closers
        /\ \A m \in 1..(k - 1) : line[m] \in WhiteSpace

NonBlank(line) == ~IsBlank(line)

\* a is b with some elements left out, the order kept.
RECURSIVE IsSubseq(_, _)
IsSubseq(a, b) ==
    IF a = <<>> THEN TRUE
    ELSE IF b = <<>> THEN FALSE
    ELSE IF a[1] = b[1] THEN IsSubseq(Tail(a), Tail(b))
    ELSE IsSubseq(a, Tail(b))

\* Lines i..j (1-based) of ls are a maximal run of blank lines.
MaximalBlankRun(ls, i, j) ==
    /\ 1 <= i /\ i <= j /\ j <= Len(ls)
    /\ \A k \in i..j : IsBlank(ls[k])
    /\ (i = 1 \/ ~IsBlank(ls[i - 1]))
    /\ (j = Len(ls) \/ ~IsBlank(ls[j + 1]))

\* How many lines of the run i..j (1-based) of ls the normalizer pushed.
KeptOfRun(ls, i, j) ==
    LET kept == KeptIndices(ls)
    IN  Cardinality({ k \in 1..Len(kept) : i <= kept[k] + 1 /\ kept[k] + 1 <= j })

\* result is what one application made of lines.
Normalized == passes = 1

-----------------------------------------------------------------------------
(* Claims on smartCleanBlankLines, under SpecNormalize.                    *)

\* C1: normalize is idempotent: a second application returns what the
\* first returned, line for line.
C1_Idempotent ==
    passes >= 2 => result = smartCleanBlankLines(lines)

\* C2: the output holds no blank line that is immediately followed by a
\* line whose trimmed form starts with a closing bracket.
C2_CloserSuppression ==
    passes >= 1 =>
        \A j \in 1..(Len(result) - 1) :
            ~(IsBlank(result[j]) /\ StartsWithCloser(result[j + 1]))

\* C3: every maximal run of blank lines (at the start, in the middle or at
\* the end) whose line before it does not end with an opener and whose line
\* after it does not start with a closer leaves exactly one blank line.
C3_RunCollapse ==
    Normalized =>
        \A i, j \in 1..Len(lines) :
            ( /\ MaximalBlankRun(lines, i, j)
              /\ (i = 1 \/ ~EndsWithOpener(lines[i - 1]))
              /\ (j = Len(lines) \/ ~StartsWithCloser(lines[j + 1])) )
            => KeptOfRun(lines, i, j) = 1

\* C4: the output holds no blank line whose preceding output line ends with
\* an opening bracket, and every blank line of a run that follows such a
\* line in the input is dropped.
C4_OpenerSuppression ==
    /\ passes >= 1 =>
           \A j \in 2..Len(result) :
               ~(IsBlank(result[j]) /\ EndsWithOpener(result[j - 1]))
    /\ Normalized =>
           \A i, j \in 2..Len(lines) :
               (MaximalBlankRun(lines, i, j) /\ EndsWithOpener(lines[i - 1]))
               => KeptOfRun(lines, i, j) = 0

\* C4 witness: a run of two blank lines between an opener line and a line
\* that is no closer was dropped.
C4_Witness ==
    /\ Normalized
    /\ \E i \in 1..(Len(lines) - 3) :
           /\ EndsWithOpener(lines[i])
           /\ MaximalBlankRun(lines, i + 1, i + 2)
           /\ ~StartsWithCloser(lines[i + 3])
           /\ Len(result) = Len(lines) - 2

\* C9: normalize only removes blank lines: the output is a subsequence of
\* the input, no longer than it, with the same non-blank lines, each
\* unchanged; the empty sequence gives the empty sequence.
C9_OnlyRemovesBlankLines ==
    Normalized =>
        /\ IsSubseq(result, lines)
        /\ Len(result) <= Len(lines)
        /\ SelectSeq(result, NonBlank) = SelectSeq(lines, NonBlank)
        /\ (lines = <<>> => result = <<>>)
        /\ LET kept == KeptIndices(lines)
           IN  /\ Len(kept) = Len(result)
               /\ \A k \in 1..Len(kept) : result[k] = lines[kept[k] + 1]
               /\ \A k \in 1..(Len(kept) - 1) : kept[k] < kept[k + 1]

\* C9 witness: a blank line was removed and a non-blank line with trailing
\* whitespace was kept.
C9_Witness ==
    /\ Normalized
    /\ Len(result) < Len(lines)
    /\ \E k \in 1..Len(result) : NonBlank(result[k]) /\ trim(result[k]) # result[k]

-----------------------------------------------------------------------------
(* Claims on cleanTrailingWhitespace and cleanCodeBlock, under SpecText.   *)

\* C5: cleanCodeBlock keeps the first and the last line of a block text of
\* at least 2 lines character for character, and returns a text of fewer
\* than 2 lines unchanged.
C5_FencePreservation ==
    fn = "cleanBlock" =>
        LET a == split(orig)
            b == split(text)
        IN  /\ Len(a) >= 2 =>
                   /\ Len(b) >= 2
                   /\ b[1] = a[1]
                   /\ b[Len(b)] = a[Len(a)]
            /\ Len(a) < 2 => text = orig

\* C5 witness: a block whose fence lines end in whitespace or look blank
\* was cleaned, and its interior changed.
C5_Witness ==
    /\ fn = "cleanBlock"
    /\ text # orig
    /\ LET a == split(orig)
       IN  /\ Len(a) >= 3
           /\ trimEnd(a[1]) # a[1]
           /\ IsBlank(a[Len(a)])

\* C10: a transform never lengthens a text and shortens every text it
\* changes, so repeated cleaning changes a text finitely often.
C10_CleaningShrinks ==
    fn \in {"cleanSelection", "cleanBlock"} =>
        /\ Len(text) <= Len(orig)
        /\ text # orig => Len(text) < Len(orig)

\* C10 witness: the text is what cleanTrailingWhitespace made of a longer
\* text, and cleaning it again shortened it again.
C10_Witness ==
    /\ fn = "cleanSelection"
    /\ Len(text) < Len(orig)
    /\ \E t \in Texts(MaxTextLen) :
           /\ Len(t) > Len(orig)
           /\ orig = cleanTrailingWhitespace(t)

-----------------------------------------------------------------------------
(* Claim on getCodeBlockAtCursor, under SpecLocate.                        *)

\* The line, its leading whitespace stripped, starts with three backquotes.
IsFence(line) ==
    \E k \in 1..(Len(line) - 2) :
        /\ \A m \in 1..(k - 1) : line[m] \in WhiteSpace
        /\ line[k] = BQ /\ line[k + 1] = BQ /\ line[k + 2] = BQ

\* The fence lines (0-based) of doc paired in document order: the 1st with
\* the 2nd, the 3rd with the 4th, and so on.
FencePairs(doc) ==
    LET F == { i \in 0..(Len(doc) - 1) : IsFence(doc[i + 1]) }
        rank(i) == Cardinality({ k \in F : k <= i })
    IN  { p \in F \X F : rank(p[1]) % 2 = 1 /\ rank(p[2]) = rank(p[1]) + 1 }

\* The span of the pair p of doc.
SpanOf(doc, p) ==
    [from |-> [line |-> p[1], ch |-> 0],
     to |-> [line |-> p[2], ch |-> Len(doc[p[2] + 1])],
     content |-> join(SubSeq(doc, p[1] + 1, p[2] + 1))]

Enclosing(doc, c) == { p \in FencePairs(doc) : p[1] <= c /\ c <= p[2] }

\* C6: locate returns the span of the fence pair that holds the cursor
\* line, and none when no pair holds it.
C6_LocatorContainment ==
    fn = "locate" =>
        /\ \A p \in Enclosing(content, cursor.line) :
               located = <<SpanOf(content, p)>>
        /\ Enclosing(content, cursor.line) = {} => located = Null

\* C6 witness: the cursor is on an interior line of the second pair of a
\* document whose first pair it has passed, and that pair is returned.
C6_Witness ==
    /\ fn = "locate"
    /\ located # Null
    /\ Cardinality(FencePairs(content)) >= 2
    /\ located[1].from.line >= 2
    /\ located[1].from.line < cursor.line /\ cursor.line < located[1].to.line

-----------------------------------------------------------------------------
(* The host editor as the plugin uses it.  A position is [line, ch]; the   *)
(* selection is Null (a bare cursor) or one span [from, to] with           *)
(* from before to, and the cursor is the head of the selection.            *)

Pos(l, c) == [line |-> l, ch |-> c]

\* The span the next insertion replaces: the selection, or the cursor.
SelRange(sel, cur) == IF sel = Null THEN [from |-> cur, to |-> cur] ELSE sel[1]

\* editor.getRange(from, to)
getRange(doc, from, to) ==
    IF from.line = to.line
    THEN SubSeq(At(doc, from.line), from.ch + 1, to.ch)
    ELSE join(<<SubSeq(At(doc, from.line), from.ch + 1, Len(At(doc, from.line)))>>
              \o SubSeq(doc, from.line + 2, to.line)
              \o <<SubSeq(At(doc, to.line), 1, to.ch)>>)

\* editor.getSelection()
getSelection(doc, sel, cur) ==
    getRange(doc, SelRange(sel, cur).from, SelRange(sel, cur).to)

\* The document after editor.replaceRange(repl, from, to).
replaceRange(doc, repl, from, to) ==
    LET before == SubSeq(At(doc, from.line), 1, from.ch)
        after == SubSeq(At(doc, to.line), to.ch + 1, Len(At(doc, to.line)))
    IN  SubSeq(doc, 1, from.line)
        \o split(before \o repl \o after)
        \o SubSeq(doc, to.line + 2, Len(doc))

\* The position of the end of repl once inserted at from.
EndOfInsert(from, repl) ==
    LET ls == split(repl)
    IN  IF Len(ls) = 1 THEN Pos(from.line, from.ch + Len(repl))
        ELSE Pos(from.line + Len(ls) - 1, Len(ls[Len(ls)]))

\* The document after editor.replaceSelection(repl).
replaceSelection(doc, sel, cur, repl) ==
    replaceRange(doc, repl, SelRange(sel, cur).from, SelRange(sel, cur).to)

-----------------------------------------------------------------------------
(* The plugin, main.ts 137-257 and settings.ts.                            *)

\* loadSettings: Object.assign({}, DEFAULT_SETTINGS, data); data is Null
\* (nothing saved) or the saved flag.
loadSettings(data) ==
    IF data = Null THEN DEFAULT_SETTINGS
    ELSE [DEFAULT_SETTINGS EXCEPT !.autoCleanOnPaste = data[1]]

\* The paste gate ignoring the flag.
pasteEnabledAlways(s) == TRUE

\* if (this.settings.autoCleanOnPaste)
pasteEnabled(s) == s.autoCleanOnPaste

\* if (selection) testing the trimmed selection.
hasSelectionTrimmed(sel) == trim(sel) # <<>>

\* if (selection): the empty string is falsy.
hasSelection(sel) == sel # <<>>

\* cleaned !== original
Changed(cleaned, original) == cleaned # original

CleanedSelectionNotice == "Cleaned trailing whitespace in selection"
NoneInSelectionNotice == "No trailing whitespace found in selection"
CleanedBlockNotice == "Cleaned trailing whitespace in code block"
NoneInBlockNotice == "No trailing whitespace found in code block"
NotInBlockCleanNotice ==
    "Cursor is not inside a code block. Select text or place cursor in a code block."
SelectedNotice == "Code block selected"
NotInBlockSelectNotice == "Cursor is not inside a code block"

\* The lines and the clipboard texts the editor is exercised with.
EditorLines == { Fence, <<"a", " ">>, <<"a">>, <<>> }

PasteTexts == { <<>>, <<"a">>, <<"a", " ">>, <<"a", " ", NL>> }

\* The document stays within the modelled documents.
InBounds(doc) ==
    /\ Len(doc) <= MaxEditorLines
    /\ \A k \in 1..Len(doc) : doc[k] \in EditorLines

\* No paste event is being handled.
Idle == evt = Null

Init ==
    /\ \E data \in {Null, <<TRUE>>, <<FALSE>>} : settings = loadSettings(data)
    /\ content \in Docs(EditorLines, MaxEditorLines)
    /\ cursor = Pos(0, 0)
    /\ selection = Null
    /\ notice = ""
    /\ evt = Null
    /\ NormalizeIdle /\ TextIdle /\ fn = "none" /\ located = Null

\* The user puts the cursor at the start or the end of a line.
SetCursor ==
    /\ Idle
    /\ \E l \in 0..(Len(content) - 1) : \E c \in {0, Len(At(content, l))} :
           cursor' = Pos(l, c)
    /\ selection' = Null
    /\ UNCHANGED <<lines, result, passes, orig, text, fn, content, located,
                   settings, notice, evt>>

\* The user selects whole lines a..b, from the start of a to the end of b.
SelectLines ==
    /\ Idle
    /\ \E a \in 0..(Len(content) - 1) : \E b \in a..(Len(content) - 1) :
           /\ Pos(a, 0) # Pos(b, Len(At(content, b)))
           /\ selection' = <<[from |-> Pos(a, 0), to |-> Pos(b, Len(At(content, b)))]>>
           /\ cursor' = Pos(b, Len(At(content, b)))
    /\ UNCHANGED <<lines, result, passes, orig, text, fn, content, located,
                   settings, notice, evt>>

\* settings.ts 32-35: the toggle's onChange(value), then saveSettings.
ToggleAutoClean ==
    /\ Idle
    /\ \E value \in BOOLEAN :
           settings' = [settings EXCEPT !.autoCleanOnPaste = value]
    /\ UNCHANGED <<lines, result, passes, orig, text, fn, content, cursor,
                   located, selection, notice, evt>>

\* The transient notice disappears.
DismissNotice ==
    /\ notice # ""
    /\ notice' = ""
    /\ UNCHANGED <<lines, result, passes, orig, text, fn, content, cursor,
                   located, selection, settings, evt>>

\* cleanCodeBlockCommand, main.ts 188-222.
CleanCodeBlockCommand ==
    /\ Idle /\ notice = ""
    /\ LET sel == getSelection(content, selection, cursor)
       IN  IF hasSelection(sel)
           THEN LET cleaned == cleanTrailingWhitespace(sel)
                IN  IF Changed(cleaned, sel)
                    THEN /\ content' = replaceSelection(content, selection, cursor, cleaned)
                         /\ cursor' = EndOfInsert(SelRange(selection, cursor).from, cleaned)
                         /\ selection' = Null
                         /\ notice' = CleanedSelectionNotice
                    ELSE /\ notice' = NoneInSelectionNotice
                         /\ UNCHANGED <<content, cursor, selection>>
           ELSE LET codeBlock == getCodeBlockAtCursor(content, cursor.line)
                IN  IF codeBlock # Null
                    THEN LET cleaned == cleanCodeBlock(codeBlock[1].content)
                         IN  IF Changed(cleaned, codeBlock[1].content)
                             THEN /\ content' = replaceRange(content, cleaned,
                                                   codeBlock[1].from, codeBlock[1].to)
                                  /\ cursor' \in { codeBlock[1].from,
                                                   EndOfInsert(codeBlock[1].from, cleaned) }
                                  /\ selection' = Null
                                  /\ notice' = CleanedBlockNotice
                             ELSE /\ notice' = NoneInBlockNotice
                                  /\ UNCHANGED <<content, cursor, selection>>
                    ELSE /\ notice' = NotInBlockCleanNotice
                         /\ UNCHANGED <<content, cursor, selection>>
    /\ UNCHANGED <<lines, result, passes, orig, text, fn, located, settings, evt>>

\* selectCodeBlockCommand, main.ts 227-236.
SelectCodeBlockCommand ==
    /\ Idle /\ notice = ""
    /\ LET codeBlock == getCodeBlockAtCursor(content, cursor.line)
       IN  IF codeBlock # Null
           THEN /\ selection' = <<[from |-> codeBlock[1].from, to |-> codeBlock[1].to]>>
                /\ cursor' = codeBlock[1].to
                /\ notice' = SelectedNotice
           ELSE /\ notice' = NotInBlockSelectNotice
                /\ UNCHANGED <<cursor, selection>>
    /\ UNCHANGED <<lines, result, passes, orig, text, fn, content, located,
                   settings, evt>>

\* The host raises editor-paste; clipboardData is Null or holds the plain
\* text.  Only pastes that keep the document within bounds are raised.
PasteEvent ==
    /\ Idle /\ notice = ""
    /\ \E data \in {Null} \cup { <<t>> : t \in PasteTexts } :
           /\ data # Null =>
                  /\ InBounds(replaceSelection(content, selection, cursor, data[1]))
                  /\ InBounds(replaceSelection(content, selection, cursor,
                                  cleanTrailingWhitespace(data[1])))
           /\ evt' = <<[clipboardData |-> data, defaultPrevented |-> FALSE,
                        stage |-> "dispatched"]>>
    /\ UNCHANGED <<lines, result, passes, orig, text, fn, content, cursor,
                   located, selection, settings, notice>>

\* The editor-paste callback, main.ts 166-170, and handlePaste, 241-256.
OnEditorPaste ==
    /\ evt # Null /\ evt[1].stage = "dispatched"
    /\ LET clipboardData == evt[1].clipboardData
           return == /\ evt' = <<[evt[1] EXCEPT !.stage = "handled"]>>
                     /\ UNCHANGED <<content, cursor, selection>>
       IN  IF ~pasteEnabled(settings) THEN return
           ELSE IF clipboardData = Null THEN return
           ELSE LET pasted == clipboardData[1]
                    cleaned == cleanTrailingWhitespace(pasted)
                IN  IF pasted = <<>> THEN return
                    ELSE IF Changed(cleaned, pasted)
                    THEN /\ evt' = <<[evt[1] EXCEPT !.stage = "handled",
                                                    !.defaultPrevented = TRUE]>>
                         /\ content' = replaceSelection(content, selection, cursor, cleaned)
                         /\ cursor' = EndOfInsert(SelRange(selection, cursor).from, cleaned)
                         /\ selection' = Null
                    ELSE return
    /\ UNCHANGED <<lines, result, passes, orig, text, fn, located, settings, notice>>

\* The host's default action: unless prevented, the plain text is inserted.
DefaultPaste ==
    /\ evt # Null /\ evt[1].stage = "handled"
    /\ IF ~evt[1].defaultPrevented /\ evt[1].clipboardData # Null
       THEN LET pasted == evt[1].clipboardData[1]
            IN  /\ content' = replaceSelection(content, selection, cursor, pasted)
                /\ cursor' = EndOfInsert(SelRange(selection, cursor).from, pasted)
                /\ selection' = Null
       ELSE UNCHANGED <<content, cursor, selection>>
    /\ evt' = Null
    /\ UNCHANGED <<lines, result, passes, orig, text, fn, located, settings, notice>>

Next ==
    \/ SetCursor
    \/ SelectLines
    \/ ToggleAutoClean
    \/ DismissNotice
    \/ CleanCodeBlockCommand
    \/ SelectCodeBlockCommand
    \/ PasteEvent
    \/ OnEditorPaste
    \/ DefaultPaste

Spec == Init /\ [][Next]_vars

-----------------------------------------------------------------------------
(* Claims on the plugin, under Spec.                                       *)

\* The step in which the editor-paste callback handles the raised event.
PasteHandled ==
    /\ evt # Null /\ evt[1].stage = "dispatched"
    /\ evt' # Null /\ evt'[1].stage = "handled"

\* The step in which the host performs, or skips, the default insertion.
PasteFinished == evt # Null /\ evt[1].stage = "handled" /\ evt' = Null

\* C7: a paste has its default insertion suppressed and replaced exactly
\* when the flag is true at the event and cleanSelection(text) differs from
\* the pasted text, the replacement being cleanSelection(text); every
\* other paste is inserted unaltered by the host.
C7_PasteGating ==
    [][ /\ PasteHandled =>
               LET data == evt[1].clipboardData
                   intercept == /\ settings.autoCleanOnPaste
                                /\ data # Null
                                /\ cleanTrailingWhitespace(data[1]) # data[1]
               IN  /\ evt'[1].defaultPrevented = intercept
                   /\ evt'[1].clipboardData = data
                   /\ intercept =>
                          content' = replaceSelection(content, selection, cursor,
                                         cleanTrailingWhitespace(data[1]))
                   /\ ~intercept => UNCHANGED <<content, cursor, selection>>
        /\ PasteFinished =>
               LET data == evt[1].clipboardData
               IN  /\ evt[1].defaultPrevented => UNCHANGED content
                   /\ (~evt[1].defaultPrevented /\ data # Null) =>
                          content' = replaceSelection(content, selection, cursor, data[1])
      ]_vars

\* C7 witness: with the flag on, a paste of a two-line text that cleaning
\* changes was intercepted, and the document holds the cleaned text.
C7_Witness ==
    /\ evt # Null
    /\ evt[1].stage = "handled"
    /\ evt[1].defaultPrevented
    /\ settings.autoCleanOnPaste
    /\ evt[1].clipboardData = << <<"a", " ", NL>> >>
    /\ selection = Null
    /\ \E k \in 1..Len(content) : content[k] = <<"a">>

\* The step in which the clean command runs.
CleanStep ==
    /\ notice = ""
    /\ notice' \in { CleanedSelectionNotice, NoneInSelectionNotice,
                     CleanedBlockNotice, NoneInBlockNotice, NotInBlockCleanNotice }

\* C8: the clean command replaces a non-empty selection by its cleaning
\* without looking for a block; with no selection it replaces the lines of
\* the block that holds the cursor by cleanBlock of them and leaves the
\* lines before and after as they are; it edits only when the cleaned text
\* differs, and otherwise only shows a notice.
C8_CleanCommandEffect ==
    [][ CleanStep =>
          IF selection # Null
          THEN LET a == selection[1].from.line
                   b == selection[1].to.line
                   sel == join(SubSeq(content, a + 1, b + 1))
                   cleaned == cleanTrailingWhitespace(sel)
               IN  IF cleaned # sel
                   THEN /\ content' = SubSeq(content, 1, a) \o split(cleaned)
                                          \o SubSeq(content, b + 2, Len(content))
                        /\ notice' = CleanedSelectionNotice
                   ELSE /\ content' = content
                        /\ notice' = NoneInSelectionNotice
          ELSE IF Enclosing(content, cursor.line) # {}
          THEN LET p == CHOOSE q \in Enclosing(content, cursor.line) : TRUE
                   s == p[1]
                   e == p[2]
                   n == Len(content) - (e + 1)
                   block == join(SubSeq(content, s + 1, e + 1))
                   cleaned == cleanCodeBlock(block)
               IN  IF cleaned # block
                   THEN /\ Len(content') = s + Len(split(cleaned)) + n
                        /\ \A k \in 1..s : content'[k] = content[k]
                        /\ \A k \in 1..n :
                               content'[Len(content') - n + k] = content[e + 1 + k]
                        /\ SubSeq(content', s + 1, Len(content') - n) = split(cleaned)
                        /\ notice' = CleanedBlockNotice
                   ELSE /\ content' = content
                        /\ notice' = NoneInBlockNotice
          ELSE /\ content' = content
               /\ notice' = NotInBlockCleanNotice
      ]_vars

\* C8 witness: a block with a line before it was cleaned and changed.
C8_Witness ==
    /\ notice = CleanedBlockNotice
    /\ \E p \in FencePairs(content) :
           /\ p[1] >= 1
           /\ p[1] <= cursor.line /\ cursor.line <= p[2]

=============================================================================
